---- MODULE Spec2Model ----
(***************************************************************************)
(* A model of the meta-dynamic MCP gateway (umcp-sse-connector).           *)
(*                                                                         *)
(* The repository holds four variants of the gateway:                      *)
(*   src/unnamed/part_001               "::"  delimiter, module-level TTL  *)
(*                                      cache, parallel fan-out            *)
(*   src/src/meta-dynamic-server-cache.ts  "://" delimiter, per-instance   *)
(*                                      TTL cache, sequential fan-out,     *)
(*                                      bare tool names                    *)
(*   src/unnamed/part_002               "_"   delimiter, indexOf decoding  *)
(*   src/src/meta-dynamic-server.ts     "://" delimiter, no cache          *)
(*                                                                         *)
(* A JavaScript string is a sequence of one-character strings, so that     *)
(* encoding (template literal) and decoding (split / indexOf / slice /     *)
(* endsWith) are computed character by character.                          *)
(*                                                                         *)
(* The specifications of the module, one per concern:                      *)
(*   SpecCall   the single-target handlers (resources/read, tools/call)    *)
(*              and the prompt handlers                                    *)
(*   SpecList   the tools/list fan-out with its TTL cache                  *)
(*   SpecHttp   the downstream HTTP facade (GET /sse, POST /messages)      *)
(*   SpecRoute  the facade's routing of methods, paths and bodies          *)
(*   SpecConn   start() and connectRemote: boot-time dials and re-dials    *)
(*   SpecStdio  the line framing of StdIOClientTransport                   *)
(***************************************************************************)
EXTENDS Integers, Sequences, FiniteSets, TLC

VARIABLES
    clients,      \* the session map's keys, in Map insertion order
    exposes,      \* alias -> the local ids (tool names, resource uris) the backend lists
    toolsCache,   \* <<>> (null) or <<[expiry, value]>>
    last,         \* the single-target call being answered: what it decoded, sent and returned
    variant,      \* which list handler runs: "parallel" (part_001) or "sequential"
    now,          \* Date.now(), in time units
    calls,        \* the tools/list handler invocations: call id -> its frame
    backendReqs,  \* every tools/list request issued to a backend: [call, alias]
    sse,          \* the closure variable `sse`: 0 (null) or a transport id
    transports,   \* transport id -> the state of its push channel
    serverTransport, \* the SDK Server's current transport: 0 (undefined) or an id
    posts,        \* the POST /messages requests: post id -> its record
    lastOther,    \* the last request that reached the 404 branch, with its status
    boot,         \* start(): "new", "dialing", "serving" or "aborted"
    dials,        \* every connectRemote / connect-loop iteration: dial id -> its record
    sessionOf,    \* the session map's values: alias -> dial id of its Client, 0 when absent
    timers,       \* the pending setTimeout(..., 5_000) callbacks, by the dial that set them
    connCalls,    \* the single-target requests handed to a backend Client
    refused,      \* the downstream requests that found no listening socket
    output,       \* everything the subprocess writes to its stdout
    pos,          \* how much of it has been emitted in 'data' events
    buffer,       \* StdIOClientTransport.buffer
    listeners,    \* StdIOClientTransport.listeners: what each callback does
    received,     \* the messages each listener was called with
    dispatched,   \* the messages listeners.forEach was started for
    instCaches,   \* the list caches of a process with two gateways: owner -> <<>> or <<entry>>
    instCalls     \* the tools/list calls answered by the two gateways

callVars == <<clients, exposes, toolsCache, last>>
listVars == <<variant, now, calls, backendReqs>>
httpVars == <<sse, transports, serverTransport, posts, lastOther>>
connVars == <<boot, dials, sessionOf, timers, connCalls, refused>>
stdioVars == <<output, pos, buffer, listeners, received, dispatched>>
instVars == <<instCaches, instCalls>>
restVars == <<connVars, stdioVars, instVars>>
vars == <<clients, exposes, toolsCache, last, variant, now, calls, backendReqs,
          sse, transports, serverTransport, posts, lastOther,
          boot, dials, sessionOf, timers, connCalls, refused,
          output, pos, buffer, listeners, received, dispatched,
          instCaches, instCalls>>

(***************************************************************************)
(* JavaScript strings                                                      *)
(***************************************************************************)

\* The value `undefined`, as an element no string is equal to.
Undefined == <<"<undefined>">>

\* The three delimiters of the variants.
DelimUnderscore == <<"_">>
DelimColons     == <<":", ":">>
DelimScheme     == <<":", "/", "/">>

\* First 1-based position >= i at which d occurs in s, 0 when there is none.
RECURSIVE FindFrom(_, _, _)
FindFrom(s, d, i) ==
    IF i + Len(d) - 1 > Len(s) THEN 0
    ELSE IF SubSeq(s, i, i + Len(d) - 1) = d THEN i
    ELSE FindFrom(s, d, i + 1)

\* String.prototype.indexOf: 0-based, -1 when absent.
indexOf(s, d) == FindFrom(s, d, 1) - 1

\* String.prototype.slice(from, to) and slice(from), 0-based, to exclusive.
slice(s, from, to) == SubSeq(s, from + 1, to)
sliceFrom(s, from) == SubSeq(s, from + 1, Len(s))

\* String.prototype.split with a non-empty separator: every piece.
RECURSIVE split(_, _)
split(s, d) ==
    LET i == FindFrom(s, d, 1)
    IN  IF i = 0 THEN <<s>>
        ELSE <<SubSeq(s, 1, i - 1)>> \o split(SubSeq(s, i + Len(d), Len(s)), d)

\* Array destructuring: the k-th element, or undefined.
At(parts, k) == IF k <= Len(parts) THEN parts[k] ELSE Undefined

\* String.prototype.endsWith.
endsWith(s, suf) ==
    Len(suf) <= Len(s) /\ SubSeq(s, Len(s) - Len(suf) + 1, Len(s)) = suf

Contains(s, d) == FindFrom(s, d, 1) # 0

\* The template literal `${alias}<d>${local}` of the list handlers.
Encode(d, alias, local) == alias \o d \o local

\* res.tools.map(t => ({...t, name: `${alias}<d>${t.name}`}))
RECURSIVE Relabel(_, _, _)
Relabel(d, alias, ids) ==
    IF ids = <<>> THEN <<>>
    ELSE <<Encode(d, alias, Head(ids))>> \o Relabel(d, alias, Tail(ids))

Range(f) == {f[i] : i \in DOMAIN f}

(***************************************************************************)
(* The remotes and what they expose                                        *)
(***************************************************************************)

\* Aliases (RemoteConfig.name) and local ids, as character sequences.
AliasA      == <<"a">>
AliasB      == <<"b">>
AliasC      == <<"c">>
AliasAColon == <<"a", ":">>
AliasAUndB  == <<"a", "_", "b">>

IdX       == <<"x">>
IdP       == <<"p">>
IdQ       == <<"q">>
IdEmpty   == <<>>
IdColonX  == <<":", "x">>
IdXColsP  == <<"x", ":", ":", "p">>
IdXUndP   == <<"x", "_", "p">>
IdXSchP   == <<"x", ":", "/", "/", "p">>

Delims     == {DelimUnderscore, DelimColons, DelimScheme}
AliasStrs  == {AliasA, AliasB, AliasC, AliasAColon, AliasAUndB}
LocalStrs  == {IdX, IdP, IdQ, IdEmpty, IdColonX, IdXColsP, IdXUndP, IdXSchP}

\* this.remotes: the descriptors, in configuration order.
Remotes ==
    <<[name |-> AliasA, transport |-> "httpStream"],
      [name |-> AliasB, transport |-> "sse"]>>

\* mcpServers of the configuration file: its entries in key order, of each
\* the key and the disabled flag.
ServersPlain ==
    <<[name |-> AliasA, disabled |-> FALSE],
      [name |-> AliasC, disabled |-> TRUE],
      [name |-> AliasB, disabled |-> FALSE]>>
ServersOdd ==
    <<[name |-> AliasAColon, disabled |-> FALSE],
      [name |-> AliasA,      disabled |-> FALSE],
      [name |-> AliasC,      disabled |-> TRUE],
      [name |-> AliasAUndB,  disabled |-> FALSE]>>

\* loadRemotesFromConfig: Object.entries(raw.mcpServers)
\*   .filter(([_, srv]) => !srv.disabled).map(([name, srv]) => ({name, ...}))
\* - the names of the descriptors it returns, which the connect loop makes
\* the keys of the session map.
loadRemotesFromConfig(mcpServers) ==
    LET kept == SelectSeq(mcpServers, LAMBDA srv : ~srv.disabled)
    IN  [i \in DOMAIN kept |-> kept[i].name]

\* The configurations the single-target handlers are run under: the session
\* map's keys in insertion order, and each backend's listing.
Configs ==
    { [clients |-> loadRemotesFromConfig(ServersPlain),
       exposes |-> (AliasA :> <<IdX, IdP>>) @@ (AliasB :> <<IdP>>)],
      [clients |-> loadRemotesFromConfig(ServersPlain),
       exposes |-> (AliasA :> <<IdXSchP, IdXColsP, IdXUndP>>) @@ (AliasB :> <<IdX>>)],
      [clients |-> loadRemotesFromConfig(ServersOdd),
       exposes |-> (AliasAColon :> <<IdX>>) @@ (AliasA :> <<IdColonX, IdP>>)
                   @@ (AliasAUndB :> <<IdX>>)] }

\* What a downstream caller may send as params.name / params.uri.
RawIds ==
    {Encode(d, al, l) : d \in Delims, al \in AliasStrs, l \in LocalStrs}
        \cup LocalStrs \cup AliasStrs

\* params.arguments of a tools/call; resources/read carries none.
Arguments == {"args1", "args2"}
NoArguments == "none"

\* this.clients.get(alias) is defined
HasClient(alias) == \E i \in DOMAIN clients : clients[i] = alias

\* The whole list result when every backend answers: for (const [alias, client]
\* of clients) aggregated.push(...relabelled listing).
RECURSIVE Aggregate(_, _, _)
Aggregate(d, order, exp) ==
    IF order = <<>> THEN <<>>
    ELSE Relabel(d, Head(order), exp[Head(order)]) \o Aggregate(d, Tail(order), exp)

(***************************************************************************)
(* Single-target handlers: resources/read and tools/call                   *)
(***************************************************************************)

\* A backend's answer to a forwarded request: it tells who answered which
\* local id with which arguments.
NoReply == [from |-> Undefined, id |-> Undefined, arguments |-> NoArguments]
BackendAnswer(req) == [from |-> req.to, id |-> req.id, arguments |-> req.arguments]

NoCall ==
    [handler |-> "none", raw |-> <<>>, arguments |-> NoArguments,
     alias |-> Undefined, local |-> Undefined, status |-> "none", error |-> "",
     sent |-> <<>>, reply |-> NoReply, named |-> <<>>, askedClient |-> FALSE]

\* throw new Error(...): the SDK answers the caller with a JSON-RPC error.
Throw(h, raw, args, alias, local, err, named) ==
    [handler |-> h, raw |-> raw, arguments |-> args,
     alias |-> alias, local |-> local, status |-> "error", error |-> err,
     sent |-> <<>>, reply |-> NoReply, named |-> named, askedClient |-> FALSE]

\* await client.request({method, params: {name|uri: local, arguments}}) on the
\* client stored under alias, and return of its result.
Forward(h, method, raw, args, alias, local) ==
    LET req == [to |-> alias, method |-> method, id |-> local, arguments |-> args]
    IN  [handler |-> h, raw |-> raw, arguments |-> args,
         alias |-> alias, local |-> local, status |-> "ok", error |-> "",
         sent |-> <<req>>, reply |-> BackendAnswer(req), named |-> <<>>,
         askedClient |-> FALSE]

\* Route without the `if (!client) throw` line: the request goes out whether or
\* not the alias is a key of the session map.
RouteUnchecked(h, method, raw, args, alias, local) ==
    Forward(h, method, raw, args, alias, local)

\* const client = this.clients.get(alias); if (!client) throw ...; forward.
Route(h, method, raw, args, alias, local) ==
    IF ~HasClient(alias)
    THEN Throw(h, raw, args, alias, local, "UnknownAlias", <<>>)
    ELSE Forward(h, method, raw, args, alias, local)

\* part_002: rawUri.indexOf("_"), slice(0, idx), slice(idx + 1).
IndexOfHandler(h, method, raw, args) ==
    LET idx == indexOf(raw, DelimUnderscore)
    IN  IF idx < 0
        THEN Throw(h, raw, args, Undefined, Undefined, "MalformedIdentifier", <<>>)
        ELSE Route(h, method, raw, args, slice(raw, 0, idx), sliceFrom(raw, idx + 1))

\* part_001, meta-dynamic-server.ts and the cached variant's resources/read:
\* const [alias, path] = params.uri.split(d).
SplitHandler(h, d, method, raw, args) ==
    LET parts == split(raw, d)
    IN  Route(h, method, raw, args, At(parts, 1), At(parts, 2))

\* if (maybeTool): undefined and "" are falsy.
Truthy(str) == str # Undefined /\ str # <<>>

\* The cached variant's bare-name branch, once allTools is known.
ResolveBare(h, raw, args, tool, allTools) ==
    LET matches == SelectSeq(allTools, LAMBDA t : endsWith(t, DelimScheme \o tool))
    IN  IF Len(matches) = 1
        THEN Route(h, "tools/call", raw, args, split(matches[1], DelimScheme)[1], tool)
        ELSE Throw(h, raw, args, Undefined, tool,
                   IF Len(matches) = 0 THEN "UnknownCapability" ELSE "AmbiguousCapability",
                   matches)

\* meta-dynamic-server-cache.ts, tools/call. clientTools is what the downstream
\* client answers to this.server.request({method: "tools/list"}) when
\* toolsCache is null: Undefined (an error) or a list of names.
CallToolForgiving(h, raw, args, clientTools) ==
    LET parts      == split(raw, DelimScheme)
        maybeAlias == At(parts, 1)
        maybeTool  == At(parts, 2)
    IN  IF Truthy(maybeTool)
        THEN Route(h, "tools/call", raw, args, maybeAlias, maybeTool)
        ELSE IF toolsCache # <<>>
        THEN ResolveBare(h, raw, args, maybeAlias, toolsCache[1].value)
        ELSE IF clientTools = Undefined
        THEN [Throw(h, raw, args, Undefined, maybeAlias, "ClientRequestFailed", <<>>)
                 EXCEPT !.askedClient = TRUE]
        ELSE [ResolveBare(h, raw, args, maybeAlias, clientTools)
                 EXCEPT !.askedClient = TRUE]

\* What the downstream client may answer to a tools/list request.
ClientAnswers == {Undefined, <<>>, <<Encode(DelimScheme, AliasB, IdQ)>>}

\* cacheTtlMs, in time units; Date.now() is 0 throughout SpecCall.
cacheTtlMs == 2

ListIdle == variant = "none" /\ now = 0 /\ calls = <<>> /\ backendReqs = {}
HttpIdle ==
    /\ sse = 0 /\ transports = <<>> /\ serverTransport = 0
    /\ posts = <<>> /\ lastOther = [method |-> "", url |-> <<>>, status |-> 0]
ConnIdle ==
    /\ boot = "serving" /\ dials = <<>> /\ timers = {} /\ connCalls = <<>>
    /\ refused = {}
    /\ sessionOf = [a \in {AliasA, AliasB} |-> 0]
StdioIdle ==
    /\ output = <<>> /\ pos = 0 /\ buffer = <<>>
    /\ listeners = <<>> /\ received = <<>> /\ dispatched = <<>>
InstIdle == instCaches = <<>> /\ instCalls = <<>>

InitCall ==
    /\ \E cfg \in Configs : clients = cfg.clients /\ exposes = cfg.exposes
    /\ toolsCache = <<>>
    /\ last = NoCall
    /\ ListIdle
    /\ HttpIdle
    /\ ConnIdle
    /\ StdioIdle
    /\ InstIdle

\* meta-dynamic-server-cache.ts, tools/list, every backend answering: the
\* snapshot stored in toolsCache. (SpecList runs the same handler await by
\* await; the single-target handlers only read the snapshot it leaves.)
ListToolsAnswered ==
    /\ toolsCache = <<>>
    /\ toolsCache' = <<[expiry |-> now + cacheTtlMs,
                        value  |-> Aggregate(DelimScheme, clients, exposes)]>>
    /\ UNCHANGED <<clients, exposes, last, listVars, httpVars, restVars>>

ReadResourceUnderscore ==
    \E raw \in RawIds :
        /\ last = NoCall
        /\ last' = IndexOfHandler("part_002:read", "resources/read", raw, NoArguments)
        /\ UNCHANGED <<clients, exposes, toolsCache, listVars, httpVars, restVars>>

CallToolUnderscore ==
    \E raw \in RawIds, args \in Arguments :
        /\ last = NoCall
        /\ last' = IndexOfHandler("part_002:call", "tools/call", raw, args)
        /\ UNCHANGED <<clients, exposes, toolsCache, listVars, httpVars, restVars>>

ReadResourceColons ==
    \E raw \in RawIds :
        /\ last = NoCall
        /\ last' = SplitHandler("part_001:read", DelimColons, "resources/read", raw,
                                NoArguments)
        /\ UNCHANGED <<clients, exposes, toolsCache, listVars, httpVars, restVars>>

CallToolColons ==
    \E raw \in RawIds, args \in Arguments :
        /\ last = NoCall
        /\ last' = SplitHandler("part_001:call", DelimColons, "tools/call", raw, args)
        /\ UNCHANGED <<clients, exposes, toolsCache, listVars, httpVars, restVars>>

ReadResourceScheme ==
    \E raw \in RawIds :
        /\ last = NoCall
        /\ last' = SplitHandler("cache:read", DelimScheme, "resources/read", raw,
                                NoArguments)
        /\ UNCHANGED <<clients, exposes, toolsCache, listVars, httpVars, restVars>>

CallToolStrictScheme ==
    \E raw \in RawIds, args \in Arguments :
        /\ last = NoCall
        /\ last' = SplitHandler("nocache:call", DelimScheme, "tools/call", raw, args)
        /\ UNCHANGED <<clients, exposes, toolsCache, listVars, httpVars, restVars>>

CallToolCache ==
    \E raw \in RawIds, args \in Arguments, clientTools \in ClientAnswers :
        /\ last = NoCall
        /\ last' = CallToolForgiving("cache:call", raw, args, clientTools)
        /\ UNCHANGED <<clients, exposes, toolsCache, listVars, httpVars, restVars>>

\* The caller has its answer; `last` observes one call at a time.
ReplyDelivered ==
    /\ last # NoCall
    /\ last' = NoCall
    /\ UNCHANGED <<clients, exposes, toolsCache, listVars, httpVars, restVars>>

\* The prompt handlers of part_002 ("_") and of the cached variant ("://").
\* A prompt name is "tool_hint", one element, or something else.
PromptHandlers == {"part_002:prompts", "cache:prompts"}
PromptDelim(h) == IF h = "part_002:prompts" THEN DelimUnderscore ELSE DelimScheme
ToolHintName   == <<"tool_hint">>
PromptNames    == {ToolHintName, <<"tool_hint", "s">>, <<"t">>, <<>>}

\* TOOL_HINT / TOOL_HINT_DESCRIPTION: the convention, written with the
\* file's delimiter.
ToolHint(h) == Encode(PromptDelim(h), <<"<alias>">>, <<"<toolName>">>)

\* prompts/list: { prompts: [{ name: "tool_hint", description: TOOL_HINT }] }
ListPromptsResult(h) ==
    [handler |-> h, raw |-> <<>>, arguments |-> NoArguments,
     alias |-> Undefined, local |-> Undefined, status |-> "ok", error |-> "",
     sent |-> <<>>,
     reply |-> <<[name |-> ToolHintName, description |-> ToolHint(h)]>>,
     named |-> <<>>, askedClient |-> FALSE]

\* prompts/get without the name test: any name gets the hint.
GetPromptAnyName(h, name) ==
    [handler |-> h, raw |-> name, arguments |-> NoArguments,
     alias |-> Undefined, local |-> Undefined, status |-> "ok", error |-> "",
     sent |-> <<>>,
     reply |-> [description |-> ToolHint(h), messages |-> <<ToolHint(h)>>],
     named |-> <<>>, askedClient |-> FALSE]

\* prompts/get: if (params.name !== "tool_hint") throw new Error("Unknown
\* prompt: ..."); else the description and one user message with the hint.
GetPromptResult(h, name) ==
    IF name # ToolHintName
    THEN Throw(h, name, NoArguments, Undefined, Undefined, "UnknownPrompt", <<>>)
    ELSE [handler |-> h, raw |-> name, arguments |-> NoArguments,
          alias |-> Undefined, local |-> Undefined, status |-> "ok", error |-> "",
          sent |-> <<>>,
          reply |-> [description |-> ToolHint(h), messages |-> <<ToolHint(h)>>],
          named |-> <<>>, askedClient |-> FALSE]

ListPrompts ==
    \E h \in PromptHandlers :
        /\ last = NoCall
        /\ last' = [ListPromptsResult(h) EXCEPT !.handler = h \o "/list"]
        /\ UNCHANGED <<clients, exposes, toolsCache, listVars, httpVars, restVars>>

GetPrompt ==
    \E h \in PromptHandlers, name \in PromptNames :
        /\ last = NoCall
        /\ last' = [GetPromptResult(h, name) EXCEPT !.handler = h \o "/get"]
        /\ UNCHANGED <<clients, exposes, toolsCache, listVars, httpVars, restVars>>

NextCall ==
    \/ ListToolsAnswered
    \/ ReplyDelivered
    \/ ReadResourceUnderscore
    \/ CallToolUnderscore
    \/ ReadResourceColons
    \/ CallToolColons
    \/ ReadResourceScheme
    \/ CallToolStrictScheme
    \/ CallToolCache
    \/ ListPrompts
    \/ GetPrompt

SpecCall == InitCall /\ [][NextCall]_vars

(***************************************************************************)
(* Claims about the single-target handlers (SpecCall)                      *)
(***************************************************************************)

\* The delimiter a handler decodes with.
DelimOf(h) ==
    IF h \in {"part_002:read", "part_002:call"} THEN DelimUnderscore
    ELSE IF h \in {"part_001:read", "part_001:call"} THEN DelimColons
    ELSE DelimScheme

PromptCalled ==
    last.handler \in {h \o "/list" : h \in PromptHandlers}
                         \cup {h \o "/get" : h \in PromptHandlers}

\* A single-target call (resources/read, tools/call) has been handled.
Called == last.status # "none" /\ ~PromptCalled

\* The specification's decode: split on the first delimiter.
SpecAlias(raw, d) == slice(raw, 0, indexOf(raw, d))
SpecLocal(raw, d) == sliceFrom(raw, indexOf(raw, d) + Len(d))

\* Every way to read raw as alias<d>local.
Cuts(raw, d) ==
    { <<SubSeq(raw, 1, i - 1), SubSeq(raw, i + Len(d), Len(raw))>> :
        i \in {j \in 1..Len(raw) : j + Len(d) - 1 <= Len(raw)
                                   /\ SubSeq(raw, j, j + Len(d) - 1) = d} }

\* The entries of the cached snapshot whose local part is the bare name.
SnapshotHits(name) ==
    {i \in DOMAIN toolsCache[1].value :
        /\ Contains(toolsCache[1].value[i], DelimScheme)
        /\ SpecLocal(toolsCache[1].value[i], DelimScheme) = name}

BareCallOnSnapshot ==
    /\ Called
    /\ last.handler = "cache:call"
    /\ ~Contains(last.raw, DelimScheme)
    /\ toolsCache # <<>>

\* C4: a bare-name tools/call is resolved against the cached tool-list
\* snapshot: exactly one entry with that local part - forwarded to that
\* entry's backend; none - UnknownCapability; several - AmbiguousCapability
\* naming every colliding alias; in both failure cases nothing is forwarded.
C4_BareNameResolution ==
    BareCallOnSnapshot =>
        LET hits  == SnapshotHits(last.raw)
            value == toolsCache[1].value
        IN  /\ Cardinality(hits) = 1 =>
                  \E i \in hits :
                      /\ last.status = "ok"
                      /\ last.sent = <<[to |-> SpecAlias(value[i], DelimScheme),
                                        method |-> "tools/call", id |-> last.raw,
                                        arguments |-> last.arguments]>>
            /\ Cardinality(hits) = 0 =>
                  /\ last.error = "UnknownCapability"
                  /\ last.sent = <<>>
            /\ Cardinality(hits) > 1 =>
                  /\ last.error = "AmbiguousCapability"
                  /\ last.sent = <<>>
                  /\ \A i \in hits :
                        \E k \in DOMAIN last.named :
                            SpecAlias(last.named[k], DelimScheme)
                                = SpecAlias(value[i], DelimScheme)

\* C5: a call with identifier A<d>l, A a key of the session map, sends exactly
\* one request, to A, carrying l and the caller's arguments, and returns A's
\* reply.
C5_PrefixedCallRoutedVerbatim ==
    Called =>
        \A cut \in Cuts(last.raw, DelimOf(last.handler)) :
            HasClient(cut[1]) =>
                /\ Len(last.sent) = 1
                /\ last.sent[1].to = cut[1]
                /\ last.sent[1].id = cut[2]
                /\ last.sent[1].arguments = last.arguments
                /\ last.status = "ok"
                /\ last.reply = BackendAnswer(last.sent[1])

\* The alias a call addresses: the part before the first delimiter; the
\* split-based handlers take the whole identifier when there is no delimiter,
\* and the forgiving tools/call has one only on its prefixed branch.
AddressedAlias ==
    IF last.handler = "cache:call" THEN last.alias
    ELSE IF Contains(last.raw, DelimOf(last.handler))
    THEN SpecAlias(last.raw, DelimOf(last.handler))
    ELSE IF last.handler \in {"part_002:read", "part_002:call"} THEN Undefined
    ELSE last.raw

UnknownAliasCase ==
    Called /\ AddressedAlias # Undefined /\ ~HasClient(AddressedAlias)

\* C6: a call whose decoded alias is not a key of the session map fails with
\* UnknownAlias; nothing is sent to a backend, and the session map, the cache
\* and the downstream session stay as they were.
C6_UnknownAliasFails ==
    /\ [](UnknownAliasCase =>
             /\ last.status = "error"
             /\ last.error = "UnknownAlias"
             /\ last.sent = <<>>
             /\ last.reply = NoReply)
    /\ [][UnknownAliasCase' /\ ~UnknownAliasCase =>
             UNCHANGED <<clients, exposes, toolsCache, listVars, httpVars, restVars>>]_vars

C6_Witness ==
    /\ UnknownAliasCase
    /\ last.handler = "part_001:call"
    /\ last.raw = Encode(DelimColons, AliasC, IdX)
    /\ last.error = "UnknownAlias"

\* C7: decode(encode(a, l)) = (a, l) for every alias a and local id l that do
\* not contain the delimiter, with the decoding of tools/call and
\* resources/read.
C7_RoundTrip ==
    Called =>
        \A cut \in Cuts(last.raw, DelimOf(last.handler)) :
            (~Contains(cut[1], DelimOf(last.handler))
                 /\ ~Contains(cut[2], DelimOf(last.handler)))
            => (last.alias = cut[1] /\ last.local = cut[2])

\* The local parts of what the backends list that are equal to the bare name.
BackendHits(name) ==
    {i \in DOMAIN Aggregate(DelimScheme, clients, exposes) :
        SpecLocal(Aggregate(DelimScheme, clients, exposes)[i], DelimScheme) = name}

\* C31: a bare-name tools/call that arrives while no tool-list snapshot is
\* cached gets the list from the backends, as tools/list does, and sends no
\* request to the downstream client; unique, unknown or ambiguous is decided
\* on that list.
C31_NoSnapshotAsksBackends ==
    (/\ Called
     /\ last.handler = "cache:call"
     /\ ~Contains(last.raw, DelimScheme)
     /\ toolsCache = <<>>) =>
        /\ ~last.askedClient
        /\ Cardinality(BackendHits(last.raw)) = 1 => last.status = "ok"
        /\ Cardinality(BackendHits(last.raw)) = 0 => last.error = "UnknownCapability"
        /\ Cardinality(BackendHits(last.raw)) > 1 => last.error = "AmbiguousCapability"

\* C16: a single-target call without bare-name fallback - resources/read in
\* every file, tools/call in all but the cached variant - whose identifier
\* holds no delimiter fails with MalformedIdentifier and sends nothing, also
\* when the identifier is a key of the session map.
C16_NoDelimiterIsMalformed ==
    (Called /\ last.handler # "cache:call"
        /\ ~Contains(last.raw, DelimOf(last.handler)))
    => (last.status = "error" /\ last.error = "MalformedIdentifier" /\ last.sent = <<>>)

\* C17: prompts/list returns exactly one entry, the identifier convention;
\* prompts/get returns the convention's text when the name is that entry's
\* name and fails with UnknownPrompt otherwise, whatever the session map and
\* the cache hold; neither sends anything to a backend.
C17_PromptsAreConstant ==
    \A h \in PromptHandlers :
        /\ last.handler = h \o "/list" =>
              /\ last.status = "ok"
              /\ Len(last.reply) = 1
              /\ last.reply[1].description = ToolHint(h)
              /\ last.sent = <<>>
        /\ last.handler = h \o "/get" =>
              /\ last.sent = <<>>
              /\ IF last.raw = ListPromptsResult(h).reply[1].name
                 THEN /\ last.status = "ok"
                      /\ last.reply.description = ToolHint(h)
                      /\ last.reply.messages = <<ToolHint(h)>>
                 ELSE /\ last.status = "error"
                      /\ last.error = "UnknownPrompt"
                      /\ last.reply = NoReply

\* An unknown prompt name asked of the cached variant with a snapshot stored.
C17_Witness ==
    /\ last.handler = "cache:prompts/get"
    /\ last.raw = <<"tool_hint", "s">>
    /\ last.error = "UnknownPrompt"
    /\ toolsCache # <<>>

(***************************************************************************)
(* tools/list: the fan-out and its TTL cache (SpecList)                    *)
(***************************************************************************)

\* Bounds of the list model.
MaxCalls == 2
MaxTime  == 3

\* CACHE_TTL_MS of part_001, in time units (cacheTtlMs is the cached variant's).
CACHE_TTL_MS == 2

IdY == <<"y">>
IdZ == <<"z">>

\* The spec's example: A exposes x and y, B exposes z; and one with a shared name.
ListConfigs ==
    { [clients |-> <<AliasA, AliasB>>,
       exposes |-> (AliasA :> <<IdX, IdY>>) @@ (AliasB :> <<IdZ>>)],
      [clients |-> <<AliasB, AliasA>>,
       exposes |-> (AliasA :> <<IdX, IdP>>) @@ (AliasB :> <<IdP>>)] }

ListDelim == IF variant = "parallel" THEN DelimColons ELSE DelimScheme
ListTtl   == IF variant = "parallel" THEN CACHE_TTL_MS ELSE cacheTtlMs

\* aggregated = items: a push that forgets what was pushed before.
PushOverwrite(aggregated, items) == items

\* aggregated.push(...items)
Push(aggregated, items) == aggregated \o items

\* if (hit && now - hit.ts < CACHE_TTL_MS) / if (this.toolsCache &&
\* this.toolsCache.expiry > now); the entry's expiry is ts + TTL.
CacheHit == toolsCache # <<>> /\ toolsCache[1].expiry > now

\* cache.set(key, {ts: now, data}) / this.toolsCache = {expiry: now + ttl, value},
\* with the `now` read when the call started.
StoreEntry(start, value) == <<[expiry |-> start + ListTtl, value |-> value]>>

NewCall(pending, idx) ==
    [start |-> now, pending |-> pending, idx |-> idx, answered |-> {},
     failed |-> {}, timedOut |-> {}, aggregated |-> <<>>, outcome |-> "running",
     fromCache |-> FALSE, result |-> <<>>]

ServedCall(value) ==
    [start |-> now, pending |-> {}, idx |-> 0, answered |-> {},
     failed |-> {}, timedOut |-> {}, aggregated |-> <<>>, outcome |-> "ok",
     fromCache |-> TRUE, result |-> value]

InitList ==
    /\ \E cfg \in ListConfigs : clients = cfg.clients /\ exposes = cfg.exposes
    /\ variant \in {"parallel", "sequential"}
    /\ toolsCache = <<>>
    /\ now = 0
    /\ calls = <<>>
    /\ backendReqs = {}
    /\ last = NoCall
    /\ HttpIdle
    /\ ConnIdle
    /\ StdioIdle
    /\ InstIdle

\* Date.now() advances.
Tick ==
    /\ now < MaxTime
    /\ now' = now + 1
    /\ UNCHANGED <<callVars, variant, calls, backendReqs, httpVars, restVars>>

\* A tools/list request reaches the handler: the cache test and, on a miss, the
\* requests sent before the first await - all of them in part_001's
\* Promise.all, the first one in the cached variant's for-loop.
ListToolsStart ==
    /\ Len(calls) < MaxCalls
    /\ LET c == Len(calls) + 1
       IN  IF CacheHit
           THEN /\ calls' = Append(calls, ServedCall(toolsCache[1].value))
                /\ UNCHANGED backendReqs
           ELSE IF variant = "parallel"
           THEN /\ calls' = Append(calls, NewCall(Range(clients), 0))
                /\ backendReqs' = backendReqs \cup
                       {[call |-> c, alias |-> a] : a \in Range(clients)}
           ELSE /\ calls' = Append(calls, NewCall({clients[1]}, 1))
                /\ backendReqs' = backendReqs \cup {[call |-> c, alias |-> clients[1]]}
    /\ UNCHANGED <<callVars, variant, now, httpVars, restVars>>

\* A store on every last reply, whether or not the call has failed before.
CompletesAlways(f, g) == g.pending = {}

\* `const data = await getter(); cache.set(...)` / the assignment after the
\* for-loop: reached when no await of the call has thrown and none is left.
Completes(f, g) == f.outcome = "running" /\ g.pending = {}

\* Backend a answers call c's request with its listing.
BackendReplies(c, a) ==
    LET f   == calls[c]
        agg == Push(f.aggregated, Relabel(ListDelim, a, exposes[a]))
        g   == [f EXCEPT !.aggregated = agg, !.pending = f.pending \ {a},
                          !.answered = f.answered \cup {a}]
    IN  /\ a \in f.pending
        /\ IF variant = "sequential" /\ f.idx < Len(clients)
           THEN \* the loop goes on: the next client is asked
                /\ calls' = [calls EXCEPT ![c] =
                                [g EXCEPT !.idx = f.idx + 1,
                                          !.pending = {clients[f.idx + 1]}]]
                /\ backendReqs' = backendReqs \cup
                       {[call |-> c, alias |-> clients[f.idx + 1]]}
                /\ UNCHANGED toolsCache
           ELSE IF Completes(f, g)
           THEN \* the last reply: the entry is stored and the call returns
                /\ calls' = [calls EXCEPT ![c] =
                                [g EXCEPT !.outcome = "ok", !.result = agg]]
                /\ toolsCache' = StoreEntry(f.start, agg)
                /\ UNCHANGED backendReqs
           ELSE /\ calls' = [calls EXCEPT ![c] = g]
                /\ UNCHANGED <<toolsCache, backendReqs>>
        /\ UNCHANGED <<clients, exposes, last, variant, now, httpVars, restVars>>

\* Backend a's request of call c rejects (unreachable, error reply, request
\* timeout): the await throws, nothing catches it, the handler throws.
BackendFails(c, a) ==
    LET f == calls[c]
    IN  /\ a \in f.pending
        /\ calls' = [calls EXCEPT ![c] =
                        [f EXCEPT !.pending = f.pending \ {a},
                                  !.failed = f.failed \cup {a},
                                  !.outcome = IF f.outcome = "running" THEN "error"
                                              ELSE f.outcome]]
        /\ UNCHANGED <<callVars, variant, now, backendReqs, httpVars, restVars>>

\* Backend a never answers call c's request: client.request is called without
\* options, the descriptor's timeout field is not passed on, and the request
\* rejects when the SDK's own request timer fires. The rejection is thrown out
\* of the handler like any other one; a reply that arrives later finds no
\* pending request.
BackendTimesOut(c, a) ==
    LET f == calls[c]
    IN  /\ a \in f.pending
        /\ now > f.start
        /\ calls' = [calls EXCEPT ![c] =
                        [f EXCEPT !.pending = f.pending \ {a},
                                  !.failed = f.failed \cup {a},
                                  !.timedOut = f.timedOut \cup {a},
                                  !.outcome = IF f.outcome = "running" THEN "error"
                                              ELSE f.outcome]]
        /\ UNCHANGED <<callVars, variant, now, backendReqs, httpVars, restVars>>

NextList ==
    \/ Tick
    \/ ListToolsStart
    \/ \E c \in DOMAIN calls, a \in Range(clients) : BackendReplies(c, a)
    \/ \E c \in DOMAIN calls, a \in Range(clients) : BackendFails(c, a)
    \/ \E c \in DOMAIN calls, a \in Range(clients) : BackendTimesOut(c, a)

SpecList == InitList /\ [][NextList]_vars

(***************************************************************************)
(* Claims about tools/list (SpecList)                                      *)
(***************************************************************************)

\* encode(alias, t) for every tool t of every backend in as.
EntriesOf(as) ==
    UNION { {Encode(ListDelim, a, exposes[a][i]) : i \in DOMAIN exposes[a]} : a \in as }

NoDuplicates(xs) == \A i, j \in DOMAIN xs : xs[i] = xs[j] => i = j

AllAnswered(f) == f.answered = Range(clients) /\ f.failed = {}

\* C1: with every backend connected and answering, tools/list returns exactly
\* { encode(alias, t) }: nothing missing, duplicated or attributed to another
\* alias, whatever the order of the backends' replies.
C1_FanOutMerge ==
    \A c \in DOMAIN calls :
        LET f == calls[c]
        IN  (AllAnswered(f) \/ (f.fromCache /\ f.outcome = "ok")) =>
                /\ f.outcome = "ok"
                /\ Range(f.result) = EntriesOf(Range(clients))
                /\ NoDuplicates(f.result)

\* Replies arrived in the reverse of the insertion order.
C1_Witness ==
    /\ variant = "parallel"
    /\ clients = <<AliasA, AliasB>>
    /\ \E c \in DOMAIN calls :
          /\ AllAnswered(calls[c])
          /\ calls[c].outcome = "ok"
          /\ calls[c].result = <<Encode(DelimColons, AliasB, IdZ),
                                 Encode(DelimColons, AliasA, IdX),
                                 Encode(DelimColons, AliasA, IdY)>>

\* C2: when one backend's request fails while another answers, the list call
\* returns a successful result with the answering backends' entries and none
\* of the failing one's; it never returns an error.
C2_PartialFailureTolerated ==
    \A c \in DOMAIN calls :
        LET f == calls[c]
        IN  (f.failed # {} /\ f.answered # {}) =>
                /\ f.outcome # "error"
                /\ f.outcome = "ok" => Range(f.result) = EntriesOf(f.answered)

RequestsOf(cs, a) == {r \in backendReqs : r.call \in cs /\ r.alias = a}

\* C3: two tools/list calls made within one TTL window issue at most one
\* request to each backend, and a call made when no unexpired entry exists
\* issues a request to every backend.
C3_CacheBound ==
    /\ \A c1, c2 \in DOMAIN calls :
          (c1 < c2 /\ calls[c2].start - calls[c1].start < ListTtl) =>
              \A a \in Range(clients) : Cardinality(RequestsOf({c1, c2}, a)) <= 1
    /\ \A c \in DOMAIN calls :
          (~calls[c].fromCache /\ calls[c].outcome = "ok") =>
              \A a \in Range(clients) : Cardinality(RequestsOf({c}, a)) = 1

\* C21: decode cuts at the first delimiter and keeps all that follows: for
\* every identifier a list call returns - alias, delimiter, local id, the
\* local id possibly holding the delimiter itself - a resources/read or
\* tools/call with it sends to the listing backend the local id it reported.
C21_FirstDelimiterDecode ==
    Called =>
        \A i \in DOMAIN clients :
            \A k \in DOMAIN exposes[clients[i]] :
                last.raw = Encode(DelimOf(last.handler), clients[i], exposes[clients[i]][k])
                => /\ Len(last.sent) = 1
                   /\ last.sent[1].to = clients[i]
                   /\ last.sent[1].id = exposes[clients[i]][k]

\* C22: a descriptor whose alias holds the delimiter is rejected when the
\* configuration is loaded: no key of the session map holds the delimiter, and
\* every identifier a list call emits decodes to the alias that produced it.
C22_AliasesHoldNoDelimiter ==
    Called =>
        \A i \in DOMAIN clients :
            /\ ~Contains(clients[i], DelimOf(last.handler))
            /\ \A k \in DOMAIN exposes[clients[i]] :
                  SpecAlias(Encode(DelimOf(last.handler), clients[i],
                                   exposes[clients[i]][k]),
                            DelimOf(last.handler)) = clients[i]

\* C25: when a backend never answers during a list fan-out, the call completes
\* once that backend's timeout has passed and returns the other backends'
\* entries, without asking any backend again; the late reply changes nothing.
C25_TimeoutReturnsTheOthers ==
    \A c \in DOMAIN calls :
        LET f == calls[c]
        IN  f.timedOut # {} =>
                /\ f.outcome # "error"
                /\ f.outcome = "ok" => Range(f.result) = EntriesOf(f.answered \ f.timedOut)
                /\ \A a \in Range(clients) : Cardinality(RequestsOf({c}, a)) <= 1

\* C28: a refresh whose fan-out failed leaves the cache as it was: no step of
\* a failed call writes the cache, the entry stored is always the complete
\* aggregate of a call that every backend answered, and a call is served from
\* the cache only with the result of such a call - after a failed refresh the
\* next call asks the backends again.
C28_FailedRefreshStoresNothing ==
    /\ [](toolsCache # <<>> =>
              \E c \in DOMAIN calls :
                  /\ AllAnswered(calls[c]) /\ calls[c].outcome = "ok"
                  /\ toolsCache[1].value = calls[c].result
                  /\ toolsCache[1].expiry = calls[c].start + ListTtl
                  /\ Range(toolsCache[1].value) = EntriesOf(Range(clients)))
    /\ [](\A c \in DOMAIN calls :
              calls[c].fromCache =>
                  \E c0 \in 1..(c - 1) :
                      /\ AllAnswered(calls[c0]) /\ calls[c0].outcome = "ok"
                      /\ calls[c].result = calls[c0].result)
    /\ [][\A c \in DOMAIN calls :
              (calls'[c] # calls[c] /\ calls'[c].outcome = "error")
                  => toolsCache' = toolsCache]_vars

\* A refresh failed after one backend had answered; the next call was not
\* served from the cache, asked every backend and stored its own result.
C28_Witness ==
    \E c1, c2 \in DOMAIN calls :
        /\ c1 < c2
        /\ calls[c1].outcome = "error" /\ calls[c1].answered # {}
        /\ ~calls[c2].fromCache /\ calls[c2].outcome = "ok"
        /\ \A a \in Range(clients) : RequestsOf({c2}, a) # {}
        /\ toolsCache # <<>> /\ toolsCache[1].value = calls[c2].result

\* C29: when refreshes overlap, the expiry of the stored entry never goes
\* back: a refresh that started earlier and finishes later does not replace
\* the entry of a refresh that started after it, so that the entry is never
\* older than any completed refresh.
C29_ExpiryNeverDecreases ==
    \A c \in DOMAIN calls :
        (calls[c].outcome = "ok" /\ ~calls[c].fromCache) =>
            /\ toolsCache # <<>>
            /\ toolsCache[1].expiry >= calls[c].start + ListTtl

\* C18: at most one refresh of the cached list is in flight at any time: a
\* list call that arrives during a refresh waits for it and sends no request
\* of its own.
C18_SingleFlight ==
    /\ Cardinality({c \in DOMAIN calls : calls[c].outcome = "running"}) <= 1
    /\ \A c1, c2 \in DOMAIN calls :
          (c1 < c2 /\ calls[c2].start = calls[c1].start /\ ~calls[c2].fromCache) =>
              \A a \in Range(clients) : RequestsOf({c2}, a) = {}

\* The descriptors' order: the connect loop fills the session map in that
\* order; part_001's parallel dials fill it in the order they complete.
DescriptorOrder ==
    IF variant = "sequential" THEN clients
    ELSE [i \in DOMAIN Remotes |-> Remotes[i].name]

\* C19: a list call returns the backends' lists concatenated in the order of
\* the descriptors, each backend's entries together and in the backend's
\* order, whatever the order in which dials completed and replies arrived.
C19_MergeInDescriptorOrder ==
    \A c \in DOMAIN calls :
        calls[c].outcome = "ok" =>
            calls[c].result = Aggregate(ListDelim, DescriptorOrder, exposes)

(***************************************************************************)
(* The downstream HTTP facade: GET /sse and POST /messages (SpecHttp)      *)
(*                                                                         *)
(* The SDK's SSEServerTransport and Server are modelled at the calls the   *)
(* http.createServer callback makes: connect() makes the transport the     *)
(* Server's current one and starts the event stream; the stream's 'close'  *)
(* event clears the transport's response and the Server's current          *)
(* transport; handlePostMessage answers 500 without a response stream and  *)
(* 202 after handing the message to the Server.                            *)
(***************************************************************************)

\* Bounds of the HTTP model.
MaxSessions == 2
MaxPosts    == 2

\* The most recently opened push channel (0: none yet).
Latest == Len(transports)

OpenChannels == {t \in DOMAIN transports : transports[t].open}

\* No downstream session is Streaming.
NoStreaming == Latest = 0 \/ ~transports[Latest].open

\* req.url, cut where the handlers' two literals end: "/sse" and "/messages"
\* are one element each, whatever follows is one element per character.
UrlSse       == <<"/sse">>
UrlMessages  == <<"/messages">>
UrlSession   == <<"/messages", "?", "s">>
UrlMessagesX == <<"/messages", "x">>
UrlOther     == <<"/other">>

\* The requests a peer may send.
Requests ==
    [method : {"GET", "POST"},
     url    : {UrlSse, UrlSession, UrlMessagesX, UrlOther}]

\* The requests of the MCP transport itself.
GetSseRequest == [method |-> "GET",  url |-> UrlSse]
PostRequest   == [method |-> "POST", url |-> UrlSession]
OtherExample  == [method |-> "GET",  url |-> UrlOther]

\* String.prototype.startsWith
startsWith(s, pre) == Len(pre) <= Len(s) /\ SubSeq(s, 1, Len(pre)) = pre

\* The branch of the http.createServer callback a request takes.
Branch(req) ==
    IF req.url = UrlSse /\ req.method = "GET" THEN "sse"
    ELSE IF startsWith(req.url, UrlMessages) /\ req.method = "POST" THEN "messages"
    ELSE "other"

\* Request bodies: "", "{" (not JSON), "{}" (JSON, no JSON-RPC message) and a
\* JSON-RPC request, its members written as one element.
BodyEmpty   == <<>>
BodyBroken  == <<"{">>
BodyObject  == <<"{", "}">>
BodyMessage == <<"{", "jsonrpc", "}">>
Bodies      == {BodyEmpty, BodyBroken, BodyObject, BodyMessage}

\* JSON.parse(text) returns.
BodyParses(text) == text \in {BodyObject, BodyMessage}

\* The SDK's JSONRPCMessageSchema accepts the parsed body.
IsRpcMessage(text) == text = BodyMessage

\* body || "{}" in part_001; the other files parse body itself.
ParsedText(body) ==
    IF variant = "parallel" /\ body = BodyEmpty THEN BodyObject ELSE body

NoOther == [method |-> "", url |-> <<>>, status |-> 0]

NewPost(req, stage, status) ==
    [url |-> req.url, stage |-> stage, arrivedWith |-> sse,
     idleAtArrival |-> NoStreaming, body |-> BodyEmpty, openAtEnd |-> FALSE,
     malformed |-> FALSE, latestAtEnd |-> 0, handledBy |-> 0, captured |-> 0,
     status |-> status, dispatched |-> FALSE, replyOn |-> 0]

InitHttp ==
    /\ sse = 0
    /\ transports = <<>>
    /\ serverTransport = 0
    /\ posts = <<>>
    /\ lastOther = NoOther
    /\ clients = <<AliasA, AliasB>>
    /\ exposes = (AliasA :> <<IdX, IdY>>) @@ (AliasB :> <<IdZ>>)
    /\ toolsCache = <<>>
    /\ last = NoCall
    /\ ListIdle
    /\ ConnIdle
    /\ StdioIdle
    /\ InstIdle

\* part_002 alone sets the keep-alive timer: const hb = setInterval(...).
HasHeartbeat == variant = "part_002"

\* A server that listens as soon as start() has been called.
ListeningEarly == boot # "new"

\* httpServer.listen(port) is the last statement of start(): it runs after the
\* awaited dials and the registration of the handlers.
Listening == boot = "serving"

\* GET /sse: sse = new SSEServerTransport("/messages", res);
\* this.server.connect(sse). Nothing is done to the transport sse held before.
GetSseOn(req, maxSessions) ==
    /\ Listening
    /\ Branch(req) = "sse"
    /\ Len(transports) < maxSessions
    /\ transports' = Append(transports,
                            [open |-> TRUE, hb |-> HasHeartbeat, frames |-> 0])
    /\ sse' = Len(transports) + 1
    /\ serverTransport' = Len(transports) + 1
    /\ UNCHANGED <<posts, lastOther, callVars, listVars, restVars>>

GetSse == GetSseOn(GetSseRequest, MaxSessions)

\* POST /messages, the request line and headers: if (!sse) 400, else the
\* 'data' and 'end' listeners are registered.
PostArrivesOn(req, maxPosts) ==
    /\ Listening
    /\ Branch(req) = "messages"
    /\ Len(posts) < maxPosts
    /\ posts' = Append(posts, IF sse = 0 THEN NewPost(req, "answered", 400)
                              ELSE NewPost(req, "receiving", 0))
    /\ UNCHANGED <<sse, transports, serverTransport, lastOther, callVars, listVars, restVars>>

PostArrives == PostArrivesOn(PostRequest, MaxPosts)

\* The transport the given transport variable's arrival-time value names.
PostTargetAtArrival(p) == posts[p].arrivedWith

\* sse!, read when the 'end' listener runs.
PostTarget(p) == sse

\* The 'end' listener of POST p: JSON.parse(body) (part_001: of body || "{}"),
\* then sse!.handlePostMessage(req, res, parsed); a throw is answered 500
\* unless the transport has answered already. The transport answers 500
\* without a stream, 400 to what is no JSON-RPC message, 202 otherwise.
PostEndWith(p, body) ==
    LET f == posts[p]
        t == PostTarget(p)
        text == ParsedText(body)
        g == [f EXCEPT !.stage = "answered", !.body = body,
                       !.malformed = ~BodyParses(body),
                       !.openAtEnd = transports[t].open,
                       !.latestAtEnd = Latest]
    IN  /\ f.stage = "receiving"
        /\ posts' = [posts EXCEPT ![p] =
               IF ~BodyParses(text) THEN [g EXCEPT !.status = 500]
               ELSE IF ~transports[t].open
               THEN [g EXCEPT !.status = 500, !.handledBy = t]
               ELSE IF ~IsRpcMessage(text)
               THEN [g EXCEPT !.status = 400, !.handledBy = t]
               ELSE [g EXCEPT !.status = 202, !.handledBy = t, !.dispatched = TRUE,
                              !.captured = serverTransport]]
        /\ UNCHANGED <<sse, transports, serverTransport, lastOther, callVars, listVars, restVars>>

PostEnd(p, malformed) ==
    PostEndWith(p, IF malformed THEN BodyBroken ELSE BodyMessage)

\* The Server answers the request of POST p: the reply goes out on the
\* transport captured when the request was dispatched or on the Server's
\* current one (the SDK's versions differ), and is lost when that one has no
\* open stream.
Reply(p, viaCaptured) ==
    LET f  == posts[p]
        ch == IF viaCaptured THEN f.captured ELSE serverTransport
    IN  /\ f.dispatched
        /\ f.replyOn = 0
        /\ posts' = [posts EXCEPT ![p].replyOn =
               IF ch # 0 /\ transports[ch].open THEN ch ELSE -1]
        /\ UNCHANGED <<sse, transports, serverTransport, lastOther, callVars, listVars, restVars>>

\* The peer closes push channel t: the 'close' events of request and
\* response. The gateway's callback has no listener that touches sse;
\* part_002's listener does clearInterval(hb).
ChannelCloses(t) ==
    /\ transports[t].open
    /\ transports' = [transports EXCEPT ![t].open = FALSE, ![t].hb = FALSE]
    /\ serverTransport' = 0
    /\ UNCHANGED <<sse, posts, lastOther, callVars, listVars, restVars>>

\* Any other method or path: res.writeHead(404).end().
OtherRequestOn(req) ==
    /\ Listening
    /\ Branch(req) = "other"
    /\ lastOther' = [method |-> req.method, url |-> req.url, status |-> 404]
    /\ UNCHANGED <<sse, transports, serverTransport, posts, callVars, listVars, restVars>>

OtherRequest == OtherRequestOn(OtherExample)

\* The caller of an other-path request has its answer.
OtherAnswered ==
    /\ lastOther # NoOther
    /\ lastOther' = NoOther
    /\ UNCHANGED <<sse, transports, serverTransport, posts, callVars, listVars, restVars>>

NextHttp ==
    \/ GetSse
    \/ PostArrives
    \/ \E p \in DOMAIN posts, malformed \in BOOLEAN : PostEnd(p, malformed)
    \/ \E p \in DOMAIN posts, viaCaptured \in BOOLEAN : Reply(p, viaCaptured)
    \/ \E t \in DOMAIN transports : ChannelCloses(t)
    \/ OtherRequest
    \/ OtherAnswered

SpecHttp == InitHttp /\ [][NextHttp]_vars

(***************************************************************************)
(* Claims about the downstream session (SpecHttp)                          *)
(***************************************************************************)

\* C8: opening a second push channel while the first is open closes the
\* first: at most one push channel is open in every reachable state.
C8_AtMostOneOpenChannel == Cardinality(OpenChannels) <= 1

C10_NoActiveSession ==
    \A p \in DOMAIN posts :
        (posts[p].idleAtArrival /\ posts[p].stage = "answered") =>
            (posts[p].status = 400 /\ ~posts[p].dispatched)

\* C23: the requests pending on a session whose push channel has closed or
\* has been replaced are abandoned: the reply to a request submitted on one
\* session is never written to the push channel of a later one.
C23_NoReplyOnLaterSession ==
    \A p \in DOMAIN posts :
        posts[p].replyOn > 0 => posts[p].replyOn = posts[p].handledBy

(***************************************************************************)
(* The facade's routing: any method, path and body, in part_001            *)
(* (variant = "parallel") and in the other three files (SpecRoute)         *)
(***************************************************************************)

\* Bounds of the routing model.
RouteSessions == 1
RoutePosts    == 1
MaxFrames     == 2

\* The interval of channel t's timer elapses: try { res.write(":\n\n") } catch {}
HeartbeatFires(t) ==
    /\ transports[t].hb
    /\ transports[t].frames < MaxFrames
    /\ transports' = [transports EXCEPT ![t].frames = @ + 1]
    /\ UNCHANGED <<sse, serverTransport, posts, lastOther, callVars, listVars, restVars>>

InitRoute ==
    /\ variant \in {"parallel", "sequential", "part_002"}
    /\ now = 0 /\ calls = <<>> /\ backendReqs = {}
    /\ sse = 0
    /\ transports = <<>>
    /\ serverTransport = 0
    /\ posts = <<>>
    /\ lastOther = NoOther
    /\ clients = <<AliasA, AliasB>>
    /\ exposes = (AliasA :> <<IdX, IdY>>) @@ (AliasB :> <<IdZ>>)
    /\ toolsCache = <<>>
    /\ last = NoCall
    /\ ConnIdle
    /\ StdioIdle
    /\ InstIdle

NextRoute ==
    \/ \E req \in Requests : GetSseOn(req, RouteSessions)
    \/ \E req \in Requests : PostArrivesOn(req, RoutePosts)
    \/ \E p \in DOMAIN posts, body \in Bodies : PostEndWith(p, body)
    \/ \E p \in DOMAIN posts, viaCaptured \in BOOLEAN : Reply(p, viaCaptured)
    \/ \E t \in DOMAIN transports : ChannelCloses(t)
    \/ \E req \in Requests : OtherRequestOn(req)
    \/ OtherAnswered
    \/ \E t \in DOMAIN transports : HeartbeatFires(t)

SpecRoute == InitRoute /\ [][NextRoute]_vars

(***************************************************************************)
(* Claims about routing (SpecRoute)                                        *)
(***************************************************************************)

\* C14: with a push channel open, a POST whose body is not well-formed JSON,
\* the empty body included, is answered 500 and nothing is dispatched.
C14_MalformedBodyIs500 ==
    \A p \in DOMAIN posts :
        LET f == posts[p]
        IN  (f.stage = "answered" /\ f.openAtEnd /\ ~BodyParses(f.body)) =>
                (f.status = 500 /\ ~f.dispatched)

\* The url names the given path: the path itself, or the path and a query.
OnPath(url, path) == url = path \/ (startsWith(url, path) /\ url[Len(path) + 1] = "?")

\* C15: a request that is neither a GET on the push-channel path nor a POST
\* on the message path is answered 404: it is not taken as a message POST or
\* as a channel request, and whatever reaches the last branch gets 404.
C15_OtherRequestsAre404 ==
    /\ \A p \in DOMAIN posts : OnPath(posts[p].url, UrlMessages)
    /\ lastOther.status \in {0, 404}
    /\ lastOther # NoOther =>
           ~(lastOther.method = "POST" /\ OnPath(lastOther.url, UrlMessages))

\* C24: every open push channel is written a keep-alive frame at each
\* interval for as long as it is open - its timer runs - and a channel that
\* has closed has its timer cancelled and is written no further frame.
C24_KeepAliveWhileOpen ==
    \A t \in DOMAIN transports : transports[t].hb <=> transports[t].open

(***************************************************************************)
(* start() and connectRemote: boot-time dials and re-dials (SpecConn)      *)
(*                                                                         *)
(* variant = "parallel" is part_001 (Promise.all over connectRemote, a     *)
(* 'close' listener that re-dials); variant = "sequential" is the connect  *)
(* loop of the other three files (one await after the other, no listener). *)
(* Of the SDK's Client the model keeps: connect() resolves or rejects; a   *)
(* request on a Client whose connection has closed rejects at once, and    *)
(* the close rejects the requests that were waiting for a reply.           *)
(***************************************************************************)

\* Bounds of the connection model.
MaxDials     == 4
MaxConnCalls == 2

\* isEventEmitter(transport): "Only SSE transports expose .on('close')".
isEventEmitter(transport) == transport = "sse"

NewDial(cfg, atBoot) ==
    [alias |-> cfg.name, transport |-> cfg.transport, state |-> "dialing",
     atBoot |-> atBoot]

\* The dial's promise resolved: client.connect(transport) returned.
Resolved(d) == dials[d].state \in {"live", "closed"}

\* The 'close' listener of a dial exists in part_001, on an EventEmitter.
HasCloseListener(d) ==
    variant = "parallel" /\ isEventEmitter(dials[d].transport)

\* A re-dial that leaves the entry of an alias already in the map alone.
SetClientOnce(map, alias, d) ==
    IF map[alias] = 0 THEN [map EXCEPT ![alias] = d] ELSE map

\* this.clients.set(cfg.name, client)
SetClient(map, alias, d) == [map EXCEPT ![alias] = d]

\* A set that adds a key each time it is called.
KeysAlwaysAppended(keys, alias) == Append(keys, alias)

\* Map.set keeps the position of a key that is already present.
KeysAfterSet(keys, alias) ==
    IF alias \in Range(keys) THEN keys ELSE Append(keys, alias)

InitConn ==
    /\ variant \in {"parallel", "sequential"}
    /\ boot = "new"
    /\ dials = <<>>
    /\ sessionOf = [a \in {AliasA, AliasB} |-> 0]
    /\ timers = {}
    /\ connCalls = <<>>
    /\ refused = {}
    /\ clients = <<>>
    /\ exposes = (AliasA :> <<IdX, IdY>>) @@ (AliasB :> <<IdZ>>)
    /\ toolsCache = <<>>
    /\ last = NoCall
    /\ now = 0 /\ calls = <<>> /\ backendReqs = {}
    /\ HttpIdle
    /\ StdioIdle
    /\ InstIdle

\* start(): part_001 calls connectRemote for every descriptor before the first
\* await; the connect loop starts with the first descriptor.
StartBoot ==
    /\ boot = "new"
    /\ boot' = "dialing"
    /\ dials' = IF variant = "parallel"
                THEN [i \in DOMAIN Remotes |-> NewDial(Remotes[i], TRUE)]
                ELSE <<NewDial(Remotes[1], TRUE)>>
    /\ UNCHANGED <<sessionOf, timers, connCalls, callVars, listVars, httpVars, stdioVars, instVars, refused>>

\* await client.connect(transport) returns: this.clients.set(cfg.name, client).
\* At boot, Promise.all resolves with the last dial, and the loop goes on to
\* the next descriptor or falls through to the handlers and the HTTP server.
DialSucceeds(d) ==
    LET f == dials[d]
        live == [dials EXCEPT ![d].state = "live"]
    IN  /\ f.state = "dialing"
        /\ sessionOf' = SetClient(sessionOf, f.alias, d)
        /\ clients' = KeysAfterSet(clients, f.alias)
        /\ IF f.atBoot /\ boot = "dialing" /\ variant = "sequential" /\ d < Len(Remotes)
           THEN /\ dials' = Append(live, NewDial(Remotes[d + 1], TRUE))
                /\ UNCHANGED boot
           ELSE /\ dials' = live
                /\ boot' = IF /\ f.atBoot /\ boot = "dialing"
                              /\ \A e \in DOMAIN dials :
                                    (e # d /\ dials[e].atBoot) => Resolved(e)
                              /\ Len(dials) >= Len(Remotes)
                           THEN "serving" ELSE boot
        /\ UNCHANGED <<timers, connCalls, exposes, toolsCache, last, listVars,
                       httpVars, stdioVars, instVars, refused>>

\* await client.connect(transport) throws. At boot nothing catches it: start()
\* rejects before any handler is registered or the HTTP server created. A
\* re-dial's rejection goes to console.error. The transport that failed may or
\* may not emit 'close'.
DialFails(d, emitsClose) ==
    LET f == dials[d]
    IN  /\ f.state = "dialing"
        /\ dials' = [dials EXCEPT ![d].state = "failed"]
        /\ boot' = IF f.atBoot /\ boot = "dialing" THEN "aborted" ELSE boot
        /\ timers' = IF HasCloseListener(d) /\ emitsClose
                     THEN timers \cup {d} ELSE timers
        /\ UNCHANGED <<sessionOf, connCalls, callVars, listVars, httpVars, stdioVars, instVars, refused>>

\* The connection of dial d closes: the requests waiting on it reject, and the
\* 'close' listener, where there is one, sets the 5 s timer. The session map
\* is not touched.
SessionCloses(d) ==
    /\ dials[d].state = "live"
    /\ dials' = [dials EXCEPT ![d].state = "closed"]
    /\ connCalls' = [k \in DOMAIN connCalls |->
                        IF connCalls[k].session = d /\ connCalls[k].state = "waiting"
                        THEN [connCalls[k] EXCEPT !.state = "failed"]
                        ELSE connCalls[k]]
    /\ timers' = IF HasCloseListener(d) THEN timers \cup {d} ELSE timers
    /\ UNCHANGED <<boot, sessionOf, callVars, listVars, httpVars, stdioVars, instVars, refused>>

\* The timer set by dial d fires: this.connectRemote(cfg).catch(console.error).
TimerFires(d) ==
    /\ d \in timers
    /\ Len(dials) < MaxDials
    /\ timers' = timers \ {d}
    /\ dials' = Append(dials, NewDial([name |-> dials[d].alias,
                                       transport |-> dials[d].transport], FALSE))
    /\ UNCHANGED <<boot, sessionOf, connCalls, callVars, listVars, httpVars, stdioVars, instVars, refused>>

\* A single-target handler, past the alias lookup: client.request(...) on the
\* Client the map holds for alias a.
CallBackend(a) ==
    /\ boot = "serving"
    /\ Len(connCalls) < MaxConnCalls
    /\ sessionOf[a] # 0
    /\ LET d == sessionOf[a]
           isLive == dials[d].state = "live"
       IN  connCalls' = Append(connCalls,
               [alias |-> a, session |-> d, stale |-> ~isLive,
                state |-> IF isLive THEN "waiting" ELSE "failed"])
    /\ UNCHANGED <<boot, dials, sessionOf, timers, callVars, listVars, httpVars,
                   stdioVars, instVars, refused>>

\* The backend's reply to request k arrives.
CallAnswered(k) ==
    /\ connCalls[k].state = "waiting"
    /\ connCalls' = [connCalls EXCEPT ![k].state = "ok"]
    /\ UNCHANGED <<boot, dials, sessionOf, timers, callVars, listVars, httpVars,
                   stdioVars, instVars, refused>>

\* A downstream request sent before httpServer.listen: there is no socket to
\* accept it, the connection is refused and no handler runs.
ConnectionRefused(req) ==
    /\ ~Listening
    /\ req \notin refused
    /\ refused' = refused \cup {req}
    /\ UNCHANGED <<boot, dials, sessionOf, timers, connCalls, callVars, listVars,
                   httpVars, stdioVars, instVars>>

\* The first channel open and the first POST that reach the HTTP server; what
\* follows them is the subject of SpecHttp.
FirstGetSse == transports = <<>> /\ GetSseOn(GetSseRequest, RouteSessions)
FirstPost   == posts = <<>> /\ PostArrivesOn(PostRequest, RoutePosts)

NextConn ==
    \/ StartBoot
    \/ \E d \in DOMAIN dials : DialSucceeds(d)
    \/ \E d \in DOMAIN dials, emitsClose \in BOOLEAN : DialFails(d, emitsClose)
    \/ \E d \in DOMAIN dials : SessionCloses(d)
    \/ \E d \in DOMAIN dials : TimerFires(d)
    \/ \E a \in {AliasA, AliasB} : CallBackend(a)
    \/ \E k \in DOMAIN connCalls : CallAnswered(k)
    \/ \E req \in {GetSseRequest, PostRequest} : ConnectionRefused(req)
    \/ FirstGetSse
    \/ FirstPost

SpecConn == InitConn /\ [][NextConn]_vars

(***************************************************************************)
(* Claims about dials and re-dials (SpecConn)                              *)
(***************************************************************************)

\* C11: from the close of a backend's connection until a re-dial of it has
\* succeeded, a single-target call to that backend fails: it is not answered
\* from the closed session and is not left waiting on it. Once the re-dial has
\* succeeded the session map's entry is the new session, so that calls are
\* sent on it and succeed again.
C11_CallsFailUntilRedialed ==
    /\ \A k \in DOMAIN connCalls :
          LET c == connCalls[k]
          IN  /\ c.stale => c.state = "failed"
              /\ c.state = "waiting" => dials[c.session].state = "live"
              /\ (~c.stale /\ c.state = "failed") => dials[c.session].state = "closed"
    /\ \A d \in DOMAIN dials :
          dials[d].state = "live" => sessionOf[dials[d].alias] = d

\* A call failed on the closed first session of B, a later one was answered on
\* a re-dialled session.
C11_Witness ==
    \E k1, k2 \in DOMAIN connCalls :
        /\ k1 < k2
        /\ connCalls[k1].alias = AliasB /\ connCalls[k2].alias = AliasB
        /\ connCalls[k1].stale
        /\ connCalls[k2].state = "ok"
        /\ ~dials[connCalls[k2].session].atBoot

\* The aliases whose boot-time dial succeeded.
BootSucceeded == {dials[d].alias : d \in {e \in DOMAIN dials : dials[e].atBoot /\ Resolved(e)}}

\* C12: when the boot-time dial of a remote fails, boot still completes and
\* the gateway serves; the session map then holds exactly the remotes whose
\* dial succeeded.
C12_DegradedModeStartup ==
    /\ boot # "aborted"
    /\ (\A d \in DOMAIN dials : dials[d].atBoot => dials[d].state # "dialing")
           /\ boot # "new"
       => (boot = "serving" /\ Range(clients) = BootSucceeded)

\* The names of the configured descriptors.
Configured == {Remotes[i].name : i \in DOMAIN Remotes}

\* C26: once boot has completed the session map has one key for each
\* configured descriptor and no other key; no step - a call, a close of a
\* connection, a re-dial - adds or removes a key, and a re-dial only replaces
\* the value stored under the key of its own alias.
C26_KeysMatchDescriptors ==
    /\ [](boot = "serving" =>
              /\ Len(clients) = Len(Remotes)
              /\ Range(clients) = Configured
              /\ \A a \in DOMAIN sessionOf : sessionOf[a] # 0 <=> a \in Configured)
    /\ [][boot = "serving" =>
              /\ clients' = clients
              /\ \A a \in DOMAIN sessionOf :
                    sessionOf'[a] # sessionOf[a] =>
                        /\ sessionOf[a] # 0
                        /\ sessionOf'[a] # 0
                        /\ dials'[sessionOf'[a]].alias = a
                        /\ ~dials'[sessionOf'[a]].atBoot]_vars

\* The gateway serves, B's connection was closed and re-dialled, the key of B
\* holds the re-dialled session and a call was answered on it.
C26_Witness ==
    /\ boot = "serving"
    /\ \E d \in DOMAIN dials :
          /\ ~dials[d].atBoot
          /\ dials[d].state = "live"
          /\ sessionOf[AliasB] = d
          /\ clients = <<AliasA, AliasB>>
          /\ \E k \in DOMAIN connCalls :
                connCalls[k].session = d /\ connCalls[k].state = "ok"

\* C30: the gateway accepts downstream channel opens and POSTs only once every
\* boot-time dial has completed and the handlers are registered: while boot
\* is under way no downstream request is accepted or sent on to a backend.
C30_NoDispatchDuringBoot ==
    (transports # <<>> \/ posts # <<>> \/ connCalls # <<>> \/ sse # 0) =>
        /\ boot = "serving"
        /\ Len(dials) >= Len(Remotes)
        /\ \A i \in DOMAIN Remotes :
              \E d \in DOMAIN dials :
                  dials[d].atBoot /\ dials[d].alias = Remotes[i].name /\ Resolved(d)
        /\ \A d \in DOMAIN dials : dials[d].atBoot => Resolved(d)

\* A channel open and a POST were refused while the dials were under way;
\* after boot a channel was opened, a POST accepted and a call sent on.
C30_Witness ==
    /\ refused = {GetSseRequest, PostRequest}
    /\ boot = "serving"
    /\ transports # <<>>
    /\ posts # <<>> /\ posts[1].stage = "receiving"
    /\ connCalls # <<>>

\* C20: after a backend's connection has closed, a re-dial is made after the
\* backoff, and every re-dial that fails is followed by another one: a
\* backend without a live session has a timer pending or a dial under way.
C20_RedialUntilConnected ==
    \A d \in DOMAIN dials :
        (variant = "parallel"
            /\ (dials[d].state = "closed"
                \/ (dials[d].state = "failed" /\ ~dials[d].atBoot)))
        => \/ d \in timers
           \/ \E e \in DOMAIN dials : e > d /\ dials[e].alias = dials[d].alias

(***************************************************************************)
(* StdIOClientTransport: the line framing of the subprocess's stdout       *)
(* (SpecStdio)                                                             *)
(*                                                                         *)
(* The subprocess writes `output`; the stream hands it over in 'data'      *)
(* events of any sizes. A JSON text over StdoutChars is a number written   *)
(* with the digit 1, so that 1 and 11 are different messages and x is      *)
(* never part of one.                                                      *)
(***************************************************************************)

\* Bounds of the framing model.
MaxStream    == 4
MaxListeners == 2

StdoutChars == {"1", "x", " ", "\n"}
Newline     == <<"\n">>

IsSpace(c) == c \in {" ", "\n"}

\* String.prototype.trim
RECURSIVE trimStart(_)
trimStart(s) == IF s # <<>> /\ IsSpace(Head(s)) THEN trimStart(Tail(s)) ELSE s
RECURSIVE trimEnd(_)
trimEnd(s) ==
    IF s # <<>> /\ IsSpace(s[Len(s)]) THEN trimEnd(SubSeq(s, 1, Len(s) - 1)) ELSE s
trim(s) == trimEnd(trimStart(s))

\* JSON.parse(text) returns (it throws otherwise), and what it returns.
JsonParses(text) ==
    LET t == trim(text) IN t # <<>> /\ \A i \in DOMAIN t : t[i] = "1"
JsonValue(text) == trim(text)

\* Listener i is called by forEach: no listener before it has thrown.
Reached(i) == \A j \in 1..(i - 1) : listeners[j] = "returns"

\* this.listeners.forEach(fn => fn(msg)), inside the try: a listener that
\* throws ends the forEach, and the catch swallows what it threw.
ForEach(recv, msg) ==
    [i \in DOMAIN recv |-> IF Reached(i) THEN Append(recv[i], msg) ELSE recv[i]]

\* this.buffer = chunk: what was buffered is forgotten.
ReplaceChunk(buf, chunk) == chunk

\* this.buffer += chunk
AppendChunk(buf, chunk) == buf \o chunk

\* while ((idx = this.buffer.indexOf("\n")) >= 0) { ... }
RECURSIVE Drain(_, _, _)
Drain(buf, recv, disp) ==
    LET idx == indexOf(buf, Newline)
    IN  IF idx < 0
        THEN [buffer |-> buf, received |-> recv, dispatched |-> disp]
        ELSE LET line == trim(slice(buf, 0, idx))
                 rest == sliceFrom(buf, idx + 1)
             IN  IF line # <<>> /\ JsonParses(line)
                 THEN Drain(rest, ForEach(recv, JsonValue(line)),
                            Append(disp, JsonValue(line)))
                 ELSE Drain(rest, recv, disp)

RECURSIVE Strings(_, _)
Strings(chars, n) ==
    IF n = 0 THEN {<<>>}
    ELSE LET shorter == Strings(chars, n - 1)
         IN  shorter \cup {Append(s, c) : s \in shorter, c \in chars}

InitStdio ==
    /\ output \in Strings(StdoutChars, MaxStream)
    /\ pos = 0
    /\ buffer = <<>>
    /\ listeners = <<>>
    /\ received = <<>>
    /\ dispatched = <<>>
    /\ clients = <<AliasA, AliasB>>
    /\ exposes = (AliasA :> <<IdX, IdY>>) @@ (AliasB :> <<IdZ>>)
    /\ toolsCache = <<>>
    /\ last = NoCall
    /\ ListIdle
    /\ HttpIdle
    /\ ConnIdle
    /\ InstIdle

\* onMessage(fn): this.listeners.push(fn)
OnMessage(kind) ==
    /\ Len(listeners) < MaxListeners
    /\ listeners' = Append(listeners, kind)
    /\ received' = Append(received, <<>>)
    /\ UNCHANGED <<output, pos, buffer, dispatched, callVars, listVars, httpVars,
                   connVars, instVars>>

\* stdout 'data': the next n characters of the output arrive as one chunk.
StdoutData(n) ==
    LET chunk == SubSeq(output, pos + 1, pos + n)
        after == Drain(AppendChunk(buffer, chunk), received, dispatched)
    IN  /\ pos + n <= Len(output)
        /\ pos' = pos + n
        /\ buffer' = after.buffer
        /\ received' = after.received
        /\ dispatched' = after.dispatched
        /\ UNCHANGED <<output, listeners, callVars, listVars, httpVars, connVars, instVars>>

NextStdio ==
    \/ \E kind \in {"returns", "throws"} : OnMessage(kind)
    \/ \E n \in 1..MaxStream : StdoutData(n)

SpecStdio == InitStdio /\ [][NextStdio]_vars

(***************************************************************************)
(* Claims about the framing (SpecStdio)                                    *)
(***************************************************************************)

\* The pieces of text that a newline ends, in order.
TerminatedLines(text) ==
    LET parts == split(text, Newline) IN SubSeq(parts, 1, Len(parts) - 1)

\* The messages of the lines that parse, in order.
MessagesOf(text) ==
    LET good == SelectSeq(TerminatedLines(text), LAMBDA l : JsonParses(l))
    IN  [i \in DOMAIN good |-> JsonValue(good[i])]

IsSuffix(s, t) == Len(s) <= Len(t) /\ SubSeq(t, Len(t) - Len(s) + 1, Len(t)) = s

\* C13: however the output is cut into chunks, the messages handed to the
\* listeners are exactly the newline-terminated lines that parse as JSON, once
\* each and in stream order; a line that does not parse hands over nothing and
\* leaves the later lines as they are; what follows the last newline waits in
\* the buffer.
C13_FramingIsChunkIndependent ==
    LET emitted == SubSeq(output, 1, pos)
        parts   == split(emitted, Newline)
    IN  /\ dispatched = MessagesOf(emitted)
        /\ buffer = parts[Len(parts)]
        /\ \A i \in DOMAIN listeners :
              Reached(i) => IsSuffix(received[i], dispatched)

\* A garbage line and then a message, all emitted, with a listener registered
\* before the message arrived.
C13_Witness ==
    /\ output = <<"x", "\n", "1", "\n">>
    /\ pos = 4
    /\ dispatched = << <<"1">> >>
    /\ listeners # <<>>
    /\ received[1] = dispatched

\* C32: every listener registered before a well-formed line arrives is called
\* with its message, in stream order, also when a listener registered before
\* it throws on the same message; and a listener that throws does not keep
\* the later lines of the chunk from being handed over.
C32_EveryListenerReceives ==
    [][\A i \in DOMAIN listeners :
          received'[i] = received[i] \o
              SubSeq(dispatched', Len(dispatched) + 1, Len(dispatched'))]_vars

(***************************************************************************)
(* Two gateways in one process (SpecInst)                                  *)
(*                                                                         *)
(* part_001 keeps its list cache in a Map declared at module level, under  *)
(* the key "tools:list"; the cached variant keeps it in a field of the     *)
(* instance. Each gateway has its own session map. The backends answer     *)
(* every request, so that a list call is one step.                         *)
(***************************************************************************)

\* Bound of the two-gateway model.
MaxInstCalls == 3

Instances == {1, 2}

\* new MetaDynamicServer(remotes), twice, with different remotes.
InstRemotes == (1 :> <<AliasA>>) @@ (2 :> <<AliasB>>)

\* Where gateway i's cached list lives: `const cache` of the module (0) or
\* `this.toolsCache` of the instance.
CacheOwner(i) == IF variant = "parallel" THEN 0 ELSE i

InitInst ==
    /\ variant \in {"parallel", "sequential"}
    /\ instCaches = [o \in {CacheOwner(i) : i \in Instances} |-> <<>>]
    /\ instCalls = <<>>
    /\ clients = <<>>
    /\ exposes = (AliasA :> <<IdX, IdY>>) @@ (AliasB :> <<IdZ>>)
    /\ toolsCache = <<>>
    /\ last = NoCall
    /\ now = 0 /\ calls = <<>> /\ backendReqs = {}
    /\ HttpIdle
    /\ ConnIdle
    /\ StdioIdle

\* tools/list on gateway i: the cache test, and on a miss the fan-out over the
\* gateway's own session map and the store.
InstListTools(i) ==
    LET e   == instCaches[CacheOwner(i)]
        hit == e # <<>> /\ e[1].expiry > now
        agg == Aggregate(ListDelim, InstRemotes[i], exposes)
    IN  /\ Len(instCalls) < MaxInstCalls
        /\ instCalls' = Append(instCalls,
               [inst |-> i, start |-> now, fromCache |-> hit,
                result |-> IF hit THEN e[1].value ELSE agg])
        /\ instCaches' = IF hit THEN instCaches
                         ELSE [instCaches EXCEPT ![CacheOwner(i)] = StoreEntry(now, agg)]
        /\ UNCHANGED <<callVars, listVars, httpVars, connVars, stdioVars>>

NextInst ==
    \/ Tick
    \/ \E i \in Instances : InstListTools(i)

SpecInst == InitInst /\ [][NextInst]_vars

\* C27: the cache belongs to one gateway instance: with two gateways of
\* different remotes in one process, a list call on one of them returns only
\* entries of its own backends, never an entry the other one computed.
C27_CachesArePerInstance ==
    \A c \in DOMAIN instCalls :
        Range(instCalls[c].result) = EntriesOf(Range(InstRemotes[instCalls[c].inst]))

====
